---- MODULE Spec2Model ----
(***************************************************************************)
(* Forecaster -> Make scraper.  The repository holds four variants of the   *)
(* script scripts/fetch_forecaster.js:                                      *)
(*   "regex"   src/scripts/fetch_forecaster.js:1-167   fetch + regex, the   *)
(*             two horizons fetched concurrently with Promise.all           *)
(*   "exec"    src/scripts/fetch_forecaster.js:170-218 fetch + raw match,   *)
(*             sequential, response of the webhook not inspected            *)
(*   "poll"    src/unnamed/part_000:1-175   Playwright, one shared context, *)
(*             waitForApexSeries polling loop                               *)
(*   "waitfn"  src/unnamed/part_000:177-374 Playwright, one browser per     *)
(*             target, waitForFunction + one evaluate                       *)
(* One behaviour of Spec is one process run of one variant.  SpecCalc        *)
(* applies the pure functions of the scripts (rounding, date conversion,    *)
(* chart instance lookup) to inputs drawn by its initial condition.         *)
(***************************************************************************)
EXTENDS Integers, Sequences, FiniteSets, TLC

(* ---------------------------------------------------------------- bounds *)
MaxSeries == 2      \* series per chart
MaxPoints == 2      \* points per chart, all series together
TimeoutMs == 1500   \* timeoutMs handed to waitForApexSeries (120000 in the source)
MaxLag    == 1      \* longest time one in-page evaluation takes, in ms
MaxMilli  == 130    \* largest price handed to the rounding functions, in thousandths
MaxDayOff == 2      \* days taken on each side of an anchor day
MaxInst   == 2      \* registered chart instances

(* ------------------------------------------------------- program constants *)
PollDelay == 750

Variants == {"regex", "exec", "poll", "waitfn"}

(* ----------------------------------------------------------------- values *)
\* A JavaScript value found in a point: a number, null/undefined, or a
\* string that is not a number.  A number x is n*1000 + f epoch milliseconds
\* (0 <= f < 1000); a number y is n thousandths.
Num(n, f) == [t |-> "num", n |-> n, f |-> f]
Nul       == [t |-> "null", n |-> 0, f |-> 0]
NaN       == [t |-> "nan", n |-> 0, f |-> 0]
StrVal    == [t |-> "str", n |-> 0, f |-> 0]     \* e.g. "abc"

GoodPt == [obj |-> TRUE,  x |-> Num(1700000000, 0), y |-> Num(123456, 0)]
NullPt == [obj |-> FALSE, x |-> Nul, y |-> Nul]  \* the point itself is null
StrXPt == [obj |-> TRUE,  x |-> StrVal, y |-> Num(485400, 0)]
PointVals == {GoodPt, NullPt, StrXPt}

\* series names as sequences of characters; <<>> is a missing or empty name
NoName    == << >>
BlankName == << " " >>
PriceName == << "P", "r", "i", "c", "e" >>
BullName  == << "B", "u", "l", "l" >>
Unknown   == << "U", "n", "k", "n", "o", "w", "n" >>
price     == << "p", "r", "i", "c", "e" >>
Names == {BlankName, PriceName, BullName}

\* the charts of at most k series holding at most p points together
DataSeqs(p) == UNION {[1..j -> PointVals] : j \in 0..p}

RECURSIVE ChartsOf(_, _)
ChartsOf(k, p) ==
  IF k = 0 THEN {<< >>}
  ELSE {<< >>} \cup
       UNION {{<< [name |-> n, data |-> d] >> \o c : c \in ChartsOf(k - 1, p - Len(d))} :
                n \in Names, d \in DataSeqs(p)}

Charts == ChartsOf(MaxSeries, MaxPoints)

\* what a probe sees in the page: window.Apex with chart instances or not,
\* and the configured series of the chart instance the lookup selects
NoApex   == [apex |-> FALSE, series |-> << >>]
PageVals == {NoApex} \cup {[apex |-> TRUE, series |-> c] : c \in Charts}

\* result of an in-page evaluation: null or an array of series
Null    == [null |-> TRUE, s |-> << >>]
Some(s) == [null |-> FALSE, s |-> s]

(* ------------------------------------------------------------ conversions *)
NaNDate == [nan |-> TRUE, yyyy |-> 0, mm |-> 0, dd |-> 0]

\* new Date(ms) then getUTCFullYear / getUTCMonth + 1 / getUTCDate
CivilFromDays(days) ==
  LET z   == days + 719468
      era == z \div 146097
      doe == z - era * 146097
      yoe == (doe - (doe \div 1460) + (doe \div 36524) - (doe \div 146096)) \div 365
      doy == doe - (365 * yoe + (yoe \div 4) - (yoe \div 100))
      mp  == (5 * doy + 2) \div 153
      d   == doy - ((153 * mp + 2) \div 5) + 1
      m   == IF mp < 10 THEN mp + 3 ELSE mp - 9
      y   == yoe + era * 400 + (IF m <= 2 THEN 1 ELSE 0)
  IN [nan |-> FALSE, yyyy |-> y, mm |-> m, dd |-> d]

toISODate(x) ==
  IF x.t = "num" THEN CivilFromDays(x.n \div 86400) ELSE NaNDate

\* the date read with getFullYear / getMonth / getDate on a clock one hour
\* east of UTC
toISODateFromMsLocal(x) ==
  CASE x.t = "num"  -> CivilFromDays((x.n + 3600) \div 86400)
    [] x.t = "null" -> CivilFromDays(0)
    [] OTHER        -> NaNDate

\* Number(ms) first: a non-numeric string becomes NaN, null becomes 0
toISODateFromMs(x) ==
  CASE x.t = "num"  -> CivilFromDays(x.n \div 86400)
    [] x.t = "null" -> CivilFromDays(0)
    [] OTHER        -> NaNDate

\* Number(y.toFixed(2)), y in thousandths: half away from zero
toFixed2(y) ==
  IF y.t # "num" THEN NaN
  ELSE IF y.n >= 0 THEN Num(((y.n + 5) \div 10) * 10, 0)
       ELSE Num(-(((5 - y.n) \div 10) * 10), 0)

\* a rounding that cuts the third decimal off
round2Truncating(y) ==
  CASE y.t = "num"  -> Num((y.n \div 10) * 10, 0)
    [] y.t = "null" -> Num(0, 0)
    [] OTHER        -> NaN

\* Math.round(Number(n) * 100) / 100, n in thousandths: half towards +infinity
round2(y) ==
  CASE y.t = "num"  -> Num(((y.n + 5) \div 10) * 10, 0)
    [] y.t = "null" -> Num(0, 0)
    [] OTHER        -> NaN

RECURSIVE Trim(_)
Trim(s) ==
  IF s = << >> THEN s
  ELSE IF Head(s) = " " THEN Trim(Tail(s))
  ELSE IF s[Len(s)] = " " THEN Trim(SubSeq(s, 1, Len(s) - 1))
  ELSE s

LowerChar(c) == CASE c = "P" -> "p" [] c = "B" -> "b" [] c = "U" -> "u" [] OTHER -> c
toLowerCase(s) == [i \in 1..Len(s) |-> LowerChar(s[i])]

\* a Row that keeps no record of its target
RowUnlabelled(scenario, date, p, label) ==
  [scenario |-> scenario, targetDate |-> date, price |-> p, timeframe |-> "1m"]

Row(scenario, date, p, label) ==
  [scenario |-> scenario, targetDate |-> date, price |-> p, timeframe |-> label]

RECURSIVE Concat(_)
Concat(ss) == IF ss = << >> THEN << >> ELSE Head(ss) \o Concat(Tail(ss))

(* ------------------------------------------------- chart instance lookup *)
First(S) == CHOOSE k \in S : \A j \in S : k <= j

\* the instance whose series are read, always the first registered one
SelectFirstInstance(v, insts) == insts[1]

\* instances.find(...) || instances.find(...) || instances[0]
SelectInstance(v, insts) ==
  LET byId == {k \in 1..Len(insts) :
                 insts[k].id \in (IF v = "poll" THEN {"id"} ELSE {"id", "chartId"})}
      byEl == {k \in 1..Len(insts) : v # "poll" /\ insts[k].id = "elId"}
  IN IF byId # {} THEN insts[First(byId)]
     ELSE IF byEl # {} THEN insts[First(byEl)]
     ELSE insts[1]

\* what the rest of the in-page function works on
PageOf(v, insts) ==
  IF Len(insts) = 0 THEN [apex |-> FALSE, series |-> << >>]
  ELSE [apex |-> TRUE, series |-> SelectInstance(v, insts).series]

(* --------------------------------------------------- variant "poll" probe *)
\* the function evaluated in the page by waitForApexSeries
hasPoints(s) == \E i \in 1..Len(s) : Len(s[i].data) > 0

\* the probe without its checks on the series array
ApexProbeUnchecked(page) ==
  IF ~page.apex THEN Null ELSE Some(page.series)

ApexProbe(page) ==
  IF ~page.apex THEN Null
  ELSE IF Len(page.series) = 0 THEN Null
  ELSE IF hasPoints(page.series) THEN Some(page.series) ELSE Null

\* what one pass of the try block of waitForApexSeries can leave in series:
\* the value of the probe on the page as it is then, or nothing when the
\* evaluation throws (the catch swallows the exception)
ProbeResults == {Null} \cup {ApexProbe(page) : page \in PageVals}

\* one evaluation of the probe: it throws, or it returns one of ProbeResults
ProbeOutcomes == {[threw |-> TRUE, r |-> Null]}
                 \cup {[threw |-> FALSE, r |-> x] : x \in ProbeResults}

\* a catch block that hands the exception of the evaluation on
PollCatchRethrow(o) == IF o.threw THEN "EvaluationError" ELSE "none"

\* catch (e) { /* ignore eval hiccups, keep polling */ }: the error that leaves
\* the try statement of waitForApexSeries
PollCatch(o) == "none"

\* a loop that gives up one delay before the deadline
PollContinueEarly(elapsed) == elapsed + PollDelay < TimeoutMs

\* the loop condition of waitForApexSeries
PollContinue(elapsed) == elapsed < TimeoutMs

\* series -> rows in scrapeTimeframe
PointRowsPoll(scenario, data, label) ==
  Concat([j \in 1..Len(data) |->
    IF data[j].x.t \in {"num", "nan"} /\ data[j].y.t \in {"num", "nan"}
    THEN << Row(scenario, toISODate(data[j].x), toFixed2(data[j].y), label) >>
    ELSE << >>])

RowsPoll(series, label) ==
  Concat([i \in 1..Len(series) |->
    PointRowsPoll(IF series[i].name = NoName THEN Unknown ELSE series[i].name,
                  series[i].data, label)])

(* ------------------------------------------------ variant "waitfn" locator *)
\* the function handed to page.evaluate by scrapeApexSeriesFromPage
LocateSeries(page) ==
  IF ~page.apex THEN Null
  ELSE IF Len(page.series) = 0 THEN Null
  ELSE Some([i \in 1..Len(page.series) |->
              [name |-> page.series[i].name, data |-> page.series[i].data]])

\* what that evaluation can return, over the pages it can meet
LocateResults == {LocateSeries(page) : page \in PageVals}

\* the row loop of scrapeApexSeriesFromPage
KeepScenario(scenario) == scenario # << >> /\ toLowerCase(scenario) # price

PointRowsWaitfn(scenario, data, label) ==
  Concat([j \in 1..Len(data) |->
    IF data[j].x.t = "null" \/ data[j].y.t = "null" THEN << >>
    ELSE << Row(scenario, toISODateFromMs(data[j].x), round2(data[j].y), label) >>])

RowsWaitfn(series, label) ==
  Concat([i \in 1..Len(series) |->
    IF KeepScenario(Trim(series[i].name))
    THEN PointRowsWaitfn(Trim(series[i].name), series[i].data, label)
    ELSE << >>])

(* ---------------------------------------------------- variant "regex" page *)
\* what fetch(url) and the two html.match calls of fetchForecast can give
HtmlKinds == {"transport", "httpError", "noMatch", "badJson", "series"}
\* a series literal that JSON.parse accepts holds no NaN
IsJSON(c) ==
  \A i \in 1..Len(c) : \A j \in 1..Len(c[i].data) :
     c[i].data[j].x.t # "nan" /\ c[i].data[j].y.t # "nan"

HtmlVals  == {[kind |-> k, series |-> << >>] : k \in HtmlKinds \ {"series"}}
             \cup {[kind |-> "series", series |-> c] :
                     c \in {d \in Charts : d # << >> /\ IsJSON(d)}}

\* /series\s*:\s*(\[\s*\{[\s\S]*?\}\s*\])/ is lazy: the match ends at the first
\* "}" followed by "]".  That is the end of the series array only if no data
\* array ends with an object point; otherwise the captured text is cut inside
\* the first series and JSON.parse throws.
LazyMatchComplete(c) ==
  \A i \in 1..Len(c) :
     Len(c[i].data) = 0 \/ ~c[i].data[Len(c[i].data)].obj

\* toYMD(p.x) throws a RangeError when Number(p.x) is NaN
ThrowsRangeError(c) ==
  \E i \in 1..Len(c) : \E j \in 1..Len(c[i].data) :
     LET p == c[i].data[j]
     IN p.obj /\ p.x.t # "null" /\ p.y.t # "null" /\ p.x.t \in {"str", "nan"}

toYMD(x) == CivilFromDays(x.n \div 86400)

NumberOf(y) == IF y.t = "num" THEN y ELSE NaN

PointRowsRegex(scenario, data, label) ==
  Concat([j \in 1..Len(data) |->
    IF ~data[j].obj \/ data[j].x.t = "null" \/ data[j].y.t = "null" THEN << >>
    ELSE << Row(scenario, toYMD(data[j].x), NumberOf(data[j].y), label) >>])

RowsRegex(c, label) ==
  Concat([i \in 1..Len(c) |->
    PointRowsRegex(IF c[i].name = NoName THEN Unknown ELSE c[i].name,
                   c[i].data, label)])

\* outcome of fetchForecast(horizon) on a page: an error name or "none"
FetchError(html) ==
  CASE html.kind = "transport" -> "NavigationError"
    [] html.kind = "httpError" -> "NavigationError"
    [] html.kind = "noMatch"   -> "NotFound"
    [] html.kind = "badJson"   -> "ParseError"
    [] OTHER -> IF ~LazyMatchComplete(html.series) THEN "ParseError"
                ELSE IF ThrowsRangeError(html.series) THEN "RangeError"
                ELSE "none"

(* ------------------------------------------------------------------ state *)
VARIABLES
  variant,    \* which script runs
  urlSet,     \* MAKE_WEBHOOK_URL is set in the environment
  pc,         \* position of the run
  exitCode,   \* -1 while running, then the process exit code
  open,       \* browsers, contexts and pages currently open
  idx,        \* index of the target being processed (sequential variants)
  elapsed,    \* Date.now() - start inside waitForApexSeries
  probes,     \* probes of the current poll that gave no result
  series,     \* what the in-page locator returned for the current target
  ret,        \* rows the current target's scrape is about to return
  err,        \* error being thrown, "none" if none
  allRows,    \* the batch
  rowsOf,     \* rows each target produced
  attempts,   \* extraction attempts started per target
  reloads,    \* page reloads per target
  failed,     \* targets whose extraction ended in an error
  fetchSt,    \* "regex": state of the two concurrent fetchForecast promises
  posts,      \* webhook requests issued, with the response of each
  threw,      \* a probe evaluation of the current poll threw
  settled,    \* "regex": the targets in the order their fetches settled
  calc        \* a pure function of the scripts, its input and its result

vars == << variant, urlSet, pc, exitCode, open, idx, elapsed, probes, series, ret,
           err, allRows, rowsOf, attempts, reloads, failed, fetchSt, posts,
           threw, settled, calc >>

Labels == {"1m", "3m"}

\* order in which main walks the targets
Targets(v) == IF v \in {"poll", "waitfn"} THEN << "3m", "1m" >> ELSE << "1m", "3m" >>
Cur == Targets(variant)[idx]

Responses == {"ok", "notOk", "transport"}

NoneOpen == [browser |-> 0, context |-> 0, page |-> 0]

\* no function under evaluation
NoCalc == [op |-> "none"]

Init ==
  /\ variant \in Variants
  /\ urlSet \in BOOLEAN
  /\ pc = "load"
  /\ exitCode = -1
  /\ open = NoneOpen
  /\ idx = 1
  /\ elapsed = 0
  /\ probes = 0
  /\ series = Null
  /\ ret = << >>
  /\ err = "none"
  /\ allRows = << >>
  /\ rowsOf = [t \in Labels |-> << >>]
  /\ attempts = [t \in Labels |-> 0]
  /\ reloads = [t \in Labels |-> 0]
  /\ failed = {}
  /\ fetchSt = [t \in Labels |-> "pending"]
  /\ posts = << >>
  /\ threw = FALSE
  /\ settled = << >>
  /\ calc = NoCalc

\* process.exit(code), or the process ending on an unhandled rejection
Exit(code) == /\ exitCode' = code /\ pc' = "exited"

(* ------------------------------------------------- variant "poll" actions *)
\* part_000:4-8 and the call main() at 175
poll_load ==
  /\ variant = "poll" /\ pc = "load"
  /\ IF urlSet THEN pc' = "launch" /\ UNCHANGED exitCode ELSE Exit(1)
  /\ UNCHANGED << calc, threw, settled, variant, urlSet, open, idx, elapsed, probes, series, ret, err,
                  allRows, rowsOf, attempts, reloads, failed, fetchSt, posts >>

\* chromium.launch, outside the try of main: a failure is an unhandled rejection
poll_launch ==
  /\ variant = "poll" /\ pc = "launch"
  /\ \E ok \in BOOLEAN :
       IF ok THEN /\ open' = [open EXCEPT !.browser = @ + 1]
                  /\ pc' = "newContext" /\ UNCHANGED exitCode
             ELSE Exit(1) /\ UNCHANGED open
  /\ UNCHANGED << calc, threw, settled, variant, urlSet, idx, elapsed, probes, series, ret, err,
                  allRows, rowsOf, attempts, reloads, failed, fetchSt, posts >>

\* browser.newContext, outside the try of main as well
poll_newContext ==
  /\ variant = "poll" /\ pc = "newContext"
  /\ \E ok \in BOOLEAN :
       IF ok THEN /\ open' = [open EXCEPT !.context = @ + 1]
                  /\ pc' = "newPage" /\ UNCHANGED exitCode
             ELSE Exit(1) /\ UNCHANGED open
  /\ UNCHANGED << calc, threw, settled, variant, urlSet, idx, elapsed, probes, series, ret, err,
                  allRows, rowsOf, attempts, reloads, failed, fetchSt, posts >>

\* scrapeTimeframe: context.newPage, before the try: nothing to close on failure
scrapeTimeframe_newPage ==
  /\ variant = "poll" /\ pc = "newPage"
  /\ attempts' = [attempts EXCEPT ![Cur] = @ + 1]
  /\ \E ok \in BOOLEAN :
       IF ok THEN /\ open' = [open EXCEPT !.page = @ + 1]
                  /\ pc' = "goto" /\ UNCHANGED << err, failed >>
             ELSE /\ err' = "NavigationError" /\ failed' = failed \cup {Cur}
                  /\ pc' = "catch" /\ UNCHANGED open
  /\ UNCHANGED << calc, threw, settled, variant, urlSet, exitCode, idx, elapsed, probes, series, ret,
                  allRows, rowsOf, reloads, fetchSt, posts >>

\* page.goto, waitForSelector and the 1500 ms settle delay
scrapeTimeframe_goto ==
  /\ variant = "poll" /\ pc = "goto"
  /\ \E ok \in BOOLEAN :
       IF ok THEN pc' = "poll" /\ UNCHANGED err
             ELSE pc' = "closePage" /\ err' = "NavigationError"
  /\ elapsed' = 0 /\ probes' = 0
  /\ UNCHANGED << calc, threw, settled, variant, urlSet, exitCode, open, idx, series, ret,
                  allRows, rowsOf, attempts, reloads, failed, fetchSt, posts >>

\* one iteration of the while loop of waitForApexSeries: evaluate the probe
\* inside the try, return a non-null result, else wait PollDelay
waitForApexSeries_probe ==
  /\ variant = "poll" /\ pc = "poll"
  /\ PollContinue(elapsed)
  /\ \E o \in ProbeOutcomes :
       IF PollCatch(o) # "none"
       THEN /\ err' = PollCatch(o) /\ pc' = "closePage"
            /\ threw' = FALSE
            /\ UNCHANGED << series, elapsed, probes >>
       ELSE IF ~o.threw /\ ~o.r.null
       THEN /\ series' = o.r /\ pc' = "normalize"
            /\ elapsed' = 0 /\ probes' = 0 /\ threw' = FALSE
            /\ UNCHANGED err
       ELSE /\ \E lag \in 0..MaxLag : elapsed' = elapsed + lag + PollDelay
            /\ probes' = probes + 1
            /\ threw' = (threw \/ o.threw)
            /\ UNCHANGED << series, pc, err >>
  /\ UNCHANGED << calc, settled, variant, urlSet, exitCode, open, idx, ret,
                  allRows, rowsOf, attempts, reloads, failed, fetchSt, posts >>

\* the throw after the loop
waitForApexSeries_timeout ==
  /\ variant = "poll" /\ pc = "poll"
  /\ ~PollContinue(elapsed)
  /\ err' = "Timeout" /\ pc' = "closePage" /\ threw' = FALSE
  /\ UNCHANGED << calc, settled, variant, urlSet, exitCode, open, idx, elapsed, probes, series, ret,
                  allRows, rowsOf, attempts, reloads, failed, fetchSt, posts >>

\* series -> rows, and the throw when there are none
scrapeTimeframe_rows ==
  /\ variant = "poll" /\ pc = "normalize"
  /\ LET rows == RowsPoll(series.s, Cur)
     IN IF rows = << >> THEN err' = "EmptyResult" /\ UNCHANGED ret
        ELSE ret' = rows /\ UNCHANGED err
  /\ pc' = "closePage" /\ series' = Null
  /\ UNCHANGED << calc, threw, settled, variant, urlSet, exitCode, open, idx, elapsed, probes,
                  allRows, rowsOf, attempts, reloads, failed, fetchSt, posts >>

\* a finally block that leaves the page open
LeavePage(o) == o

\* await page.close()
ClosePage(o) == [o EXCEPT !.page = @ - 1]

\* finally { page.close() }, then back in the for loop of main or in its catch
scrapeTimeframe_finally ==
  /\ variant = "poll" /\ pc = "closePage"
  /\ open' = ClosePage(open)
  /\ ret' = << >>
  /\ IF err = "none"
     THEN /\ allRows' = allRows \o ret
          /\ rowsOf' = [rowsOf EXCEPT ![Cur] = ret]
          /\ IF idx < Len(Targets(variant))
             THEN idx' = idx + 1 /\ pc' = "newPage"
             ELSE pc' = "post" /\ UNCHANGED idx
          /\ UNCHANGED failed
     ELSE /\ failed' = failed \cup {Cur}
          /\ pc' = "catch"
          /\ UNCHANGED << allRows, rowsOf, idx >>
  /\ UNCHANGED << calc, threw, settled, variant, urlSet, exitCode, elapsed, probes, series, err,
                  attempts, reloads, fetchSt, posts >>

\* postToMake(payload): one request; a non-ok response throws
poll_postToMake ==
  /\ variant = "poll" /\ pc = "post"
  /\ \E resp \in Responses :
       /\ posts' = Append(posts, [rows |-> allRows, resp |-> resp])
       /\ IF resp = "ok" THEN pc' = "finally" /\ UNCHANGED err
          ELSE pc' = "catch" /\ err' = "DeliveryError"
  /\ UNCHANGED << calc, threw, settled, variant, urlSet, exitCode, open, idx, elapsed, probes, series, ret,
                  allRows, rowsOf, attempts, reloads, failed, fetchSt >>

\* catch (err) { console.error; process.exit(1) }: the process ends inside the
\* catch block, the finally block of main is never entered
poll_catch ==
  /\ variant = "poll" /\ pc = "catch"
  /\ Exit(1)
  /\ UNCHANGED << calc, threw, settled, variant, urlSet, open, idx, elapsed, probes, series, ret, err,
                  allRows, rowsOf, attempts, reloads, failed, fetchSt, posts >>

\* finally { context.close(); browser.close() } on the path without exception
poll_finally ==
  /\ variant = "poll" /\ pc = "finally"
  /\ open' = NoneOpen
  /\ Exit(0)
  /\ UNCHANGED << calc, threw, settled, variant, urlSet, idx, elapsed, probes, series, ret, err,
                  allRows, rowsOf, attempts, reloads, failed, fetchSt, posts >>

NextPoll ==
  \/ poll_load \/ poll_launch \/ poll_newContext
  \/ scrapeTimeframe_newPage \/ scrapeTimeframe_goto
  \/ waitForApexSeries_probe \/ waitForApexSeries_timeout
  \/ scrapeTimeframe_rows \/ scrapeTimeframe_finally
  \/ poll_postToMake \/ poll_catch \/ poll_finally

(* ----------------------------------------------- variant "waitfn" actions *)
\* part_000:191-196 and the call main() at 371
waitfn_load ==
  /\ variant = "waitfn" /\ pc = "load"
  /\ IF urlSet THEN pc' = "launch" /\ UNCHANGED exitCode ELSE Exit(1)
  /\ UNCHANGED << calc, threw, settled, variant, urlSet, open, idx, elapsed, probes, series, ret, err,
                  allRows, rowsOf, attempts, reloads, failed, fetchSt, posts >>

\* scrapeOne: chromium.launch, before the try
scrapeOne_launch ==
  /\ variant = "waitfn" /\ pc = "launch"
  /\ attempts' = [attempts EXCEPT ![Cur] = @ + 1]
  /\ \E ok \in BOOLEAN :
       IF ok THEN /\ open' = [open EXCEPT !.browser = @ + 1]
                  /\ pc' = "newContext" /\ UNCHANGED << err, failed >>
             ELSE /\ err' = "NavigationError" /\ failed' = failed \cup {Cur}
                  /\ pc' = "catch" /\ UNCHANGED open
  /\ UNCHANGED << calc, threw, settled, variant, urlSet, exitCode, idx, elapsed, probes, series, ret,
                  allRows, rowsOf, reloads, fetchSt, posts >>

\* browser.newContext, inside the try
scrapeOne_newContext ==
  /\ variant = "waitfn" /\ pc = "newContext"
  /\ \E ok \in BOOLEAN :
       IF ok THEN /\ open' = [open EXCEPT !.context = @ + 1]
                  /\ pc' = "newPage" /\ UNCHANGED err
             ELSE /\ err' = "NavigationError" /\ pc' = "closeBrowser"
                  /\ UNCHANGED open
  /\ UNCHANGED << calc, threw, settled, variant, urlSet, exitCode, idx, elapsed, probes, series, ret,
                  allRows, rowsOf, attempts, reloads, failed, fetchSt, posts >>

\* context.newPage
scrapeOne_newPage ==
  /\ variant = "waitfn" /\ pc = "newPage"
  /\ \E ok \in BOOLEAN :
       IF ok THEN /\ open' = [open EXCEPT !.page = @ + 1]
                  /\ pc' = "goto" /\ UNCHANGED err
             ELSE /\ err' = "NavigationError" /\ pc' = "closeBrowser"
                  /\ UNCHANGED open
  /\ UNCHANGED << calc, threw, settled, variant, urlSet, exitCode, idx, elapsed, probes, series, ret,
                  allRows, rowsOf, attempts, reloads, failed, fetchSt, posts >>

\* page.goto and the 2500 ms delay
scrapeOne_goto ==
  /\ variant = "waitfn" /\ pc = "goto"
  /\ \E ok \in BOOLEAN :
       IF ok THEN pc' = "waitFn" /\ UNCHANGED err
             ELSE pc' = "closeBrowser" /\ err' = "NavigationError"
  /\ UNCHANGED << calc, threw, settled, variant, urlSet, exitCode, open, idx, elapsed, probes, series, ret,
                  allRows, rowsOf, attempts, reloads, failed, fetchSt, posts >>

\* page.waitForFunction(Apex has chart instances, 90000): resolves or times out
scrapeApexSeriesFromPage_waitForFunction ==
  /\ variant = "waitfn" /\ pc = "waitFn"
  /\ \E ready \in BOOLEAN :
       IF ready THEN pc' = "evaluate" /\ UNCHANGED err
                ELSE pc' = "closeBrowser" /\ err' = "Timeout"
  /\ UNCHANGED << calc, threw, settled, variant, urlSet, exitCode, open, idx, elapsed, probes, series, ret,
                  allRows, rowsOf, attempts, reloads, failed, fetchSt, posts >>

\* the single page.evaluate and the throw on a null result
scrapeApexSeriesFromPage_evaluate ==
  /\ variant = "waitfn" /\ pc = "evaluate"
  /\ \E raw \in LocateResults :
       IF raw.null
       THEN pc' = "closeBrowser" /\ err' = "NotFound" /\ UNCHANGED series
       ELSE pc' = "normalize" /\ series' = raw /\ UNCHANGED err
  /\ UNCHANGED << calc, threw, settled, variant, urlSet, exitCode, open, idx, elapsed, probes, ret,
                  allRows, rowsOf, attempts, reloads, failed, fetchSt, posts >>

\* raw -> rows, and the throw when there are none
scrapeApexSeriesFromPage_rows ==
  /\ variant = "waitfn" /\ pc = "normalize"
  /\ LET rows == RowsWaitfn(series.s, Cur)
     IN IF rows = << >> THEN err' = "EmptyResult" /\ UNCHANGED ret
        ELSE ret' = rows /\ UNCHANGED err
  /\ pc' = "closeBrowser" /\ series' = Null
  /\ UNCHANGED << calc, threw, settled, variant, urlSet, exitCode, open, idx, elapsed, probes,
                  allRows, rowsOf, attempts, reloads, failed, fetchSt, posts >>

\* finally { browser.close() }: closes the browser with its contexts and
\* pages; then main pushes the rows and goes on, or main().catch runs
scrapeOne_finally ==
  /\ variant = "waitfn" /\ pc = "closeBrowser"
  /\ open' = NoneOpen
  /\ ret' = << >>
  /\ IF err = "none"
     THEN /\ allRows' = allRows \o ret
          /\ rowsOf' = [rowsOf EXCEPT ![Cur] = ret]
          /\ IF idx < Len(Targets(variant))
             THEN idx' = idx + 1 /\ pc' = "launch"
             ELSE pc' = "post" /\ UNCHANGED idx
          /\ UNCHANGED failed
     ELSE /\ failed' = failed \cup {Cur}
          /\ pc' = "catch"
          /\ UNCHANGED << allRows, rowsOf, idx >>
  /\ UNCHANGED << calc, threw, settled, variant, urlSet, exitCode, elapsed, probes, series, err,
                  attempts, reloads, fetchSt, posts >>

\* postToMake(payload), then main returns and the process ends with code 0
waitfn_postToMake ==
  /\ variant = "waitfn" /\ pc = "post"
  /\ \E resp \in Responses :
       /\ posts' = Append(posts, [rows |-> allRows, resp |-> resp])
       /\ IF resp = "ok" THEN Exit(0) /\ UNCHANGED err
          ELSE pc' = "catch" /\ err' = "DeliveryError" /\ UNCHANGED exitCode
  /\ UNCHANGED << calc, threw, settled, variant, urlSet, open, idx, elapsed, probes, series, ret,
                  allRows, rowsOf, attempts, reloads, failed, fetchSt >>

\* main().catch: process.exit(1)
waitfn_catch ==
  /\ variant = "waitfn" /\ pc = "catch"
  /\ Exit(1)
  /\ UNCHANGED << calc, threw, settled, variant, urlSet, open, idx, elapsed, probes, series, ret, err,
                  allRows, rowsOf, attempts, reloads, failed, fetchSt, posts >>

NextWaitfn ==
  \/ waitfn_load \/ scrapeOne_launch \/ scrapeOne_newContext \/ scrapeOne_newPage
  \/ scrapeOne_goto \/ scrapeApexSeriesFromPage_waitForFunction
  \/ scrapeApexSeriesFromPage_evaluate \/ scrapeApexSeriesFromPage_rows
  \/ scrapeOne_finally \/ waitfn_postToMake \/ waitfn_catch

(* ------------------------------------------------- variant "exec" actions *)
\* one forecasts entry of the payload built by run
RawEntry(h) == [horizon |-> h, raw |-> "ApexCharts.exec(...)"]

\* fetch_forecaster.js:172: MAKE_WEBHOOK is read, its absence is not checked
exec_load ==
  /\ variant = "exec" /\ pc = "load"
  /\ pc' = "fetch"
  /\ UNCHANGED << calc, threw, settled, variant, urlSet, exitCode, open, idx, elapsed, probes, series, ret,
                  err, allRows, rowsOf, attempts, reloads, failed, fetchSt, posts >>

\* one iteration of the for loop of run: fetchForecast(horizon) and the push
exec_fetchForecast ==
  /\ variant = "exec" /\ pc = "fetch"
  /\ attempts' = [attempts EXCEPT ![Cur] = @ + 1]
  /\ \E html \in {"transport", "noMatch", "match"} :
       IF html = "match"
       THEN /\ allRows' = Append(allRows, RawEntry(Cur))
            /\ rowsOf' = [rowsOf EXCEPT ![Cur] = << RawEntry(Cur) >>]
            /\ IF idx < Len(Targets(variant))
               THEN idx' = idx + 1 /\ UNCHANGED pc
               ELSE pc' = "post" /\ UNCHANGED idx
            /\ UNCHANGED << err, failed >>
       ELSE /\ err' = (IF html = "noMatch" THEN "NotFound" ELSE "NavigationError")
            /\ failed' = failed \cup {Cur}
            /\ pc' = "catch"
            /\ UNCHANGED << allRows, rowsOf, idx >>
  /\ UNCHANGED << calc, threw, settled, variant, urlSet, exitCode, open, elapsed, probes, series, ret,
                  reloads, fetchSt, posts >>

\* await fetch(MAKE_WEBHOOK, ...): the response is not looked at; fetch throws
\* without a request when the URL is undefined, and rejects on a transport
\* failure
exec_post ==
  /\ variant = "exec" /\ pc = "post"
  /\ IF ~urlSet
     THEN pc' = "catch" /\ err' = "DeliveryError" /\ UNCHANGED << posts, exitCode >>
     ELSE \E resp \in Responses :
            /\ posts' = Append(posts, [rows |-> allRows, resp |-> resp])
            /\ IF resp = "transport"
               THEN pc' = "catch" /\ err' = "DeliveryError" /\ UNCHANGED exitCode
               ELSE Exit(0) /\ UNCHANGED err
  /\ UNCHANGED << calc, threw, settled, variant, urlSet, open, idx, elapsed, probes, series, ret,
                  allRows, rowsOf, attempts, reloads, failed, fetchSt >>

\* run().catch: process.exit(1)
exec_catch ==
  /\ variant = "exec" /\ pc = "catch"
  /\ Exit(1)
  /\ UNCHANGED << calc, threw, settled, variant, urlSet, open, idx, elapsed, probes, series, ret, err,
                  allRows, rowsOf, attempts, reloads, failed, fetchSt, posts >>

NextExec == exec_load \/ exec_fetchForecast \/ exec_post \/ exec_catch

(* ------------------------------------------------ variant "regex" actions *)
\* fetch_forecaster.js:26-29, then main() starts both fetchForecast calls
regex_load ==
  /\ variant = "regex" /\ pc = "load"
  /\ IF urlSet THEN pc' = "all" /\ UNCHANGED exitCode ELSE Exit(1)
  /\ UNCHANGED << calc, threw, settled, variant, urlSet, open, idx, elapsed, probes, series, ret, err,
                  allRows, rowsOf, attempts, reloads, failed, fetchSt, posts >>

\* fetchForecast(h) settles.  Once one of the two has rejected, Promise.all
\* rejects and the catch of main ends the process before the other settles.
regex_fetchForecast(h) ==
  /\ variant = "regex" /\ pc = "all"
  /\ fetchSt[h] = "pending"
  /\ \A o \in Labels : fetchSt[o] # "rejected"
  /\ attempts' = [attempts EXCEPT ![h] = @ + 1]
  /\ settled' = Append(settled, h)
  /\ \E html \in HtmlVals :
       IF FetchError(html) = "none"
       THEN /\ fetchSt' = [fetchSt EXCEPT ![h] = "fulfilled"]
            /\ rowsOf' = [rowsOf EXCEPT ![h] = RowsRegex(html.series, h)]
            /\ UNCHANGED << err, failed >>
       ELSE /\ fetchSt' = [fetchSt EXCEPT ![h] = "rejected"]
            /\ err' = FetchError(html)
            /\ failed' = failed \cup {h}
            /\ UNCHANGED rowsOf
  /\ UNCHANGED << calc, threw, variant, urlSet, pc, exitCode, open, idx, elapsed, probes, series,
                  ret, allRows, reloads, posts >>

\* Promise.all rejected
regex_reject ==
  /\ variant = "regex" /\ pc = "all"
  /\ \E h \in Labels : fetchSt[h] = "rejected"
  /\ pc' = "catch"
  /\ UNCHANGED << calc, threw, settled, variant, urlSet, exitCode, open, idx, elapsed, probes, series, ret,
                  err, allRows, rowsOf, attempts, reloads, failed, fetchSt, posts >>

\* a batch put together in the order the fetches settled
BatchInSettleOrder(rows, order) == rows[order[1]] \o rows[order[2]]

\* const [rows1m, rows3m] = await Promise.all([...]);
\* const rows = [...rows1m, ...rows3m]
Batch(rows, order) == rows["1m"] \o rows["3m"]

\* Promise.all fulfilled: the batch is built, postToMake(payload)
regex_postToMake ==
  /\ variant = "regex" /\ pc = "all"
  /\ \A h \in Labels : fetchSt[h] = "fulfilled"
  /\ allRows' = Batch(rowsOf, settled)
  /\ \E resp \in Responses :
       /\ posts' = Append(posts, [rows |-> allRows', resp |-> resp])
       /\ IF resp = "ok" THEN Exit(0) /\ UNCHANGED err
          ELSE pc' = "catch" /\ err' = "DeliveryError" /\ UNCHANGED exitCode
  /\ UNCHANGED << calc, threw, settled, variant, urlSet, open, idx, elapsed, probes, series, ret,
                  rowsOf, attempts, reloads, failed, fetchSt >>

\* catch (err) { process.exit(1) }
regex_catch ==
  /\ variant = "regex" /\ pc = "catch"
  /\ Exit(1)
  /\ UNCHANGED << calc, threw, settled, variant, urlSet, open, idx, elapsed, probes, series, ret, err,
                  allRows, rowsOf, attempts, reloads, failed, fetchSt, posts >>

NextRegex ==
  \/ regex_load
  \/ \E h \in Labels : regex_fetchForecast(h)
  \/ regex_reject \/ regex_postToMake \/ regex_catch

(* ---------------------------------------------------------- specification *)
Next == NextRegex \/ NextExec \/ NextPoll \/ NextWaitfn

Spec == Init /\ [][Next]_vars

(* ------------------------------------------ the pure functions on their own *)
\* prices in thousandths.  A price with a 5 in the third decimal is taken only
\* where its double is exact (a multiple of 0.125), so that the tie the
\* integer arithmetic sees is the tie Math.round and toFixed see.
PriceInputs ==
  {Num(n, 0) : n \in {m \in -MaxMilli..MaxMilli : m % 10 # 5 \/ m % 125 = 0}
                     \cup {123456}}

\* epoch milliseconds around day boundaries, leap days and 1700000000000
AnchorDays  == {0, 11016, 19675, 19782}
EpochInputs ==
  {Num((a + k) * 86400 + sec, f) :
     a \in AnchorDays, k \in -MaxDayOff..MaxDayOff,
     sec \in {0, 80000, 86399}, f \in {0, 999}}

\* window.Apex._chartInstances: per instance, where "projection-chart" is
\* found on it ("id": x.id, "chartId": x.chart.id, "elId": x.chart.el.id,
\* "none": nowhere) and its chart.w.config.series
InstIds    == {"none", "id", "chartId", "elId"}
InstCharts == {<< >>, << [name |-> BullName, data |-> << >>] >>,
               << [name |-> BullName, data |-> << GoodPt >>] >>,
               << [name |-> PriceName, data |-> << GoodPt >>] >>}
InstVals   == [id : InstIds, series : InstCharts]
InstLists  == UNION {[1..k -> InstVals] : k \in 0..MaxInst}

CalcInputs ==
  {[op |-> o, in |-> y, done |-> FALSE] : o \in {"round2", "toFixed2"}, y \in PriceInputs}
  \cup {[op |-> o, in |-> x, done |-> FALSE] :
          o \in {"toISODateFromMs", "toISODate", "toYMD"}, x \in EpochInputs}
  \cup {[op |-> o, in |-> l, done |-> FALSE] :
          o \in {"waitForApexSeries", "scrapeApexSeriesFromPage"}, l \in InstLists}

InitCalc ==
  /\ calc \in CalcInputs
  /\ variant = "none" /\ urlSet = TRUE /\ pc = "calc" /\ exitCode = -1
  /\ open = NoneOpen /\ idx = 1 /\ elapsed = 0 /\ probes = 0
  /\ series = Null /\ ret = << >> /\ err = "none" /\ allRows = << >>
  /\ rowsOf = [t \in Labels |-> << >>]
  /\ attempts = [t \in Labels |-> 0]
  /\ reloads = [t \in Labels |-> 0]
  /\ failed = {}
  /\ fetchSt = [t \in Labels |-> "pending"]
  /\ posts = << >> /\ threw = FALSE /\ settled = << >>

Result(out) == [op |-> calc.op, in |-> calc.in, done |-> TRUE, out |-> out]

\* everything but calc
runVars == << variant, urlSet, pc, exitCode, open, idx, elapsed, probes, series,
              ret, err, allRows, rowsOf, attempts, reloads, failed, fetchSt,
              posts, threw, settled >>

calc_round2 ==
  /\ pc = "calc" /\ ~calc.done /\ calc.op = "round2"
  /\ calc' = Result(round2(calc.in))
  /\ UNCHANGED runVars

calc_toFixed2 ==
  /\ pc = "calc" /\ ~calc.done /\ calc.op = "toFixed2"
  /\ calc' = Result(toFixed2(calc.in))
  /\ UNCHANGED runVars

calc_toISODateFromMs ==
  /\ pc = "calc" /\ ~calc.done /\ calc.op = "toISODateFromMs"
  /\ calc' = Result(toISODateFromMs(calc.in))
  /\ UNCHANGED runVars

calc_toISODate ==
  /\ pc = "calc" /\ ~calc.done /\ calc.op = "toISODate"
  /\ calc' = Result(toISODate(calc.in))
  /\ UNCHANGED runVars

calc_toYMD ==
  /\ pc = "calc" /\ ~calc.done /\ calc.op = "toYMD"
  /\ calc' = Result(toYMD(calc.in))
  /\ UNCHANGED runVars

calc_waitForApexSeries ==
  /\ pc = "calc" /\ ~calc.done /\ calc.op = "waitForApexSeries"
  /\ calc' = Result(ApexProbe(PageOf("poll", calc.in)))
  /\ UNCHANGED runVars

calc_scrapeApexSeriesFromPage ==
  /\ pc = "calc" /\ ~calc.done /\ calc.op = "scrapeApexSeriesFromPage"
  /\ calc' = Result(LocateSeries(PageOf("waitfn", calc.in)))
  /\ UNCHANGED runVars

NextCalc ==
  \/ calc_round2 \/ calc_toFixed2
  \/ calc_toISODateFromMs \/ calc_toISODate \/ calc_toYMD
  \/ calc_waitForApexSeries \/ calc_scrapeApexSeriesFromPage

SpecCalc == InitCalc /\ [][NextCalc]_vars

(* ------------------------------------------------------------------ claims *)
Delivered == IF posts = << >> THEN << >> ELSE posts[Len(posts)].rows

\* rows of the run that are Rows (the "exec" payload carries raw text, no Row)
RowsOfRun == IF variant = "exec" THEN << >> ELSE allRows \o ret

\* C1: the process exits with code 0 only if some target produced a Row and
\* the delivery request succeeded; every other outcome exits non-zero.
C1_ExitContract ==
  exitCode = 0 =>
    /\ \E t \in Labels : rowsOf[t] # << >>
    /\ posts # << >>
    /\ posts[Len(posts)].resp = "ok"

\* C2: no webhook request is ever issued with an empty batch.
C2_NoEmptyDelivery ==
  \A i \in 1..Len(posts) : posts[i].rows # << >>

\* C3: when the process has ended, every browser, context and page that the
\* run opened has been closed.
C3_AllClosed ==
  pc = "exited" => open = NoneOpen

\* C4 (browser variants): a target is declared failed only after a second
\* attempt that followed exactly one reload; no target is attempted more than
\* twice.
C4_OneRetry ==
  variant \in {"poll", "waitfn"} =>
    /\ \A t \in Labels : attempts[t] <= 2
    /\ err \in {"Timeout", "NotFound", "EmptyResult"} =>
          \A t \in failed : attempts[t] = 2 /\ reloads[t] = 1

\* C5: a failed target does not abort the run: when another target produced
\* Rows, the run ends with those Rows delivered.
C5_FailureIsolated ==
  (pc = "exited" /\ variant # "exec" /\ failed # {}) =>
     \A t \in Labels :
        rowsOf[t] # << >> =>
          /\ posts # << >>
          /\ \A k \in 1..Len(rowsOf[t]) :
                \E i \in 1..Len(Delivered) : Delivered[i] = rowsOf[t][k]

\* C6: no Row has a scenario that is empty after trimming or that equals
\* "price" compared case-insensitively.
C6_ScenarioFilter ==
  \A i \in 1..Len(RowsOfRun) :
     /\ Trim(RowsOfRun[i].scenario) # << >>
     /\ toLowerCase(Trim(RowsOfRun[i].scenario)) # price

\* C7: every Row has a valid calendar date and a numeric price, and a point
\* with a non-numeric coordinate raises no exception.
ValidDate(d) == ~d.nan /\ d.mm \in 1..12 /\ d.dd \in 1..31

C7_ValidRows ==
  /\ \A i \in 1..Len(RowsOfRun) :
        ValidDate(RowsOfRun[i].targetDate) /\ RowsOfRun[i].price.t = "num"
  /\ err # "RangeError"

ValidResult(r) == ~r.null /\ Len(r.s) > 0 /\ hasPoints(r.s)

C9_EverySeriesHasPoints ==
  ~series.null =>
     Len(series.s) > 0 /\ \A i \in 1..Len(series.s) : Len(series.s[i].data) > 0

\* C9 amended: a non-null locator result is a non-empty array of series, and
\* in the polling variant at least one of its series has a point.
C9_NonEmptyResult ==
  ~series.null =>
     Len(series.s) > 0 /\ (variant = "poll" => hasPoints(series.s))

C9_Witness ==
  /\ variant = "poll" /\ pc = "normalize" /\ ~series.null
  /\ \E i \in 1..Len(series.s) : Len(series.s[i].data) = 0

\* C10: at most one webhook request per run, issued after every target has
\* finished, and a request that does not succeed makes the run fail.
C10_SingleDelivery ==
  /\ Len(posts) <= 1
  /\ posts # << >> => \A t \in Labels : attempts[t] >= 1 /\ t \notin failed
  /\ (pc = "exited" /\ posts # << >> /\ posts[Len(posts)].resp # "ok")
        => exitCode # 0

\* points of a located series array that the row loop of the variant keeps
RetainedPoints(v, s) ==
  {<< i, j >> \in (1..Len(s)) \X (1..MaxPoints) :
     /\ j <= Len(s[i].data)
     /\ IF v = "waitfn"
        THEN /\ KeepScenario(Trim(s[i].name))
             /\ s[i].data[j].x.t # "null" /\ s[i].data[j].y.t # "null"
        ELSE /\ s[i].data[j].x.t \in {"num", "nan"}
             /\ s[i].data[j].y.t \in {"num", "nan"}}

\* C11 (browser variants): a target that succeeds returns exactly one Row per
\* retained point of its series, each Row carrying the label of that target
\* in its timeframe field; the batch that is delivered holds the Rows of
\* every target and nothing else.
C11_OneRowPerPoint ==
  /\ [][(pc = "normalize" /\ pc' # pc /\ err' = "none") =>
          /\ Len(ret') = Cardinality(RetainedPoints(variant, series.s))
          /\ \A k \in 1..Len(ret') : ret'[k].timeframe = Cur]_vars
  /\ [](variant \in {"poll", "waitfn"} /\ posts # << >> =>
          /\ Len(Delivered) = Len(rowsOf["3m"]) + Len(rowsOf["1m"])
          /\ \A t \in Labels : \A k \in 1..Len(rowsOf[t]) :
                /\ rowsOf[t][k].timeframe = t
                /\ \E i \in 1..Len(Delivered) : Delivered[i] = rowsOf[t][k]
          /\ \A i \in 1..Len(Delivered) : Delivered[i].timeframe \in Labels)

C11_Witness ==
  /\ variant = "waitfn" /\ exitCode = 0
  /\ Len(rowsOf["3m"]) = MaxPoints /\ Len(rowsOf["1m"]) = MaxPoints
  /\ Len(Delivered) = 2 * MaxPoints

\* the extraction of target t has returned to main without an exception
TargetSucceeded(t) ==
  CASE variant = "regex" -> fetchSt[t] = "fulfilled"
    [] variant = "exec"  -> FALSE
    [] OTHER ->
         LET pos == CHOOSE i \in 1..Len(Targets(variant)) : Targets(variant)[i] = t
         IN \/ pos < idx
            \/ pos = idx /\ (pc \in {"post", "finally"} \/ posts # << >>)

\* C12: a target whose series were found but give no Row fails with
\* EmptyResult, an error other than the NotFound of a page without series;
\* no target succeeds with an empty list of Rows.
C12_EmptyIsAnError ==
  /\ \A t \in Labels : TargetSucceeded(t) => rowsOf[t] # << >>
  /\ (pc = "normalize" /\ ~series.null) => err # "NotFound"

\* the rounding function the state is about, applied to y
Rounding(y) == IF calc.op = "round2" THEN round2(y) ELSE toFixed2(y)
Rounded     == calc.done /\ calc.op \in {"round2", "toFixed2"}

\* out has at most 2 decimals and is the nearest such value to in, the upper
\* one of the two when in lies half way between them
HalfUp(in, out) == out.t = "num" /\ out.n % 10 = 0 /\ out.n - in.n \in -4..5
\* the same, with the one farther from zero on a tie
HalfAwayFromZero(in, out) ==
  /\ out.t = "num" /\ out.n % 10 = 0
  /\ out.n - in.n \in (IF in.n >= 0 THEN -4..5 ELSE -5..4)

Idempotent ==
  /\ calc.in.n % 10 = 0 => calc.out = calc.in
  /\ Rounding(calc.out) = calc.out

\* C13 as stated: the rounding of predictedPrice is round-half-up to 2 decimal
\* places (123.456 gives 123.46), returns a value of at most 2 decimals
\* unchanged, and changes nothing when applied to its own result.
C13_RoundHalfUp ==
  Rounded =>
    /\ HalfUp(calc.in, calc.out)
    /\ calc.in = Num(123456, 0) => calc.out = Num(123460, 0)
    /\ Idempotent

\* C13 amended: round2 rounds half up, toFixed(2) rounds half away from zero,
\* which is half up for every value that is not negative; 123.456 gives
\* 123.46 in both, and both are idempotent.
C13_RoundNearest ==
  Rounded =>
    /\ calc.op = "round2" => HalfUp(calc.in, calc.out)
    /\ calc.op = "toFixed2" => HalfAwayFromZero(calc.in, calc.out)
    /\ calc.in.n >= 0 => HalfUp(calc.in, calc.out)
    /\ calc.in = Num(123456, 0) => calc.out = Num(123460, 0)
    /\ Idempotent

C13_Witness ==
  /\ Rounded /\ calc.op = "toFixed2"
  /\ calc.in = Num(-125, 0) /\ calc.out = Num(-130, 0)

\* the date function the state is about, applied to x
ToDate(x) ==
  CASE calc.op = "toISODateFromMs" -> toISODateFromMs(x)
    [] calc.op = "toISODate"       -> toISODate(x)
    [] OTHER                       -> toYMD(x)
Dated == calc.done /\ calc.op \in {"toISODateFromMs", "toISODate", "toYMD"}

\* days from 1970-01-01 to the calendar date d (Date.UTC(y, m - 1, d) / 86400000)
DaysFromCivil(d) ==
  LET y   == IF d.mm <= 2 THEN d.yyyy - 1 ELSE d.yyyy
      era == y \div 400
      yoe == y - era * 400
      mp  == IF d.mm > 2 THEN d.mm - 3 ELSE d.mm + 9
      doy == ((153 * mp + 2) \div 5) + d.dd - 1
      doe == yoe * 365 + (yoe \div 4) - (yoe \div 100) + doy
  IN era * 146097 + doe - 719468

UTCDay(x)     == x.n \div 86400
MidnightOf(d) == Num(DaysFromCivil(d) * 86400, 0)

\* C14: for a numeric epoch-millisecond x, the date is the calendar date of
\* the UTC day floor(x / 86400000) and of nothing else; the date of the
\* midnight-UTC epoch of that date is the same date; 1700000000000 gives
\* 2023-11-14.
C14_DateOfUTCDay ==
  Dated =>
    /\ ~calc.out.nan /\ calc.out.mm \in 1..12 /\ calc.out.dd \in 1..31
    /\ DaysFromCivil(calc.out) = UTCDay(calc.in)
    /\ ToDate(Num(UTCDay(calc.in) * 86400, 0)) = calc.out
    /\ ToDate(MidnightOf(calc.out)) = calc.out
    /\ calc.in = Num(1700000000, 0) =>
         calc.out = [nan |-> FALSE, yyyy |-> 2023, mm |-> 11, dd |-> 14]

C14_Witness ==
  /\ Dated /\ calc.op = "toISODateFromMs"
  /\ UTCDay(calc.in) = -1 /\ calc.in.n % 86400 = 86399 /\ calc.in.f = 999
  /\ calc.out = [nan |-> FALSE, yyyy |-> 1969, mm |-> 12, dd |-> 31]

Located == calc.done /\ calc.op \in {"waitForApexSeries", "scrapeApexSeriesFromPage"}

\* instance k carries the identifier where the first / the second find of the
\* lookup looks for it
MatchesFirst(k) ==
  calc.in[k].id \in (IF calc.op = "waitForApexSeries" THEN {"id"} ELSE {"id", "chartId"})
MatchesSecond(k) ==
  calc.op = "scrapeApexSeriesFromPage" /\ calc.in[k].id = "elId"

\* what the lookup returns when it reads the series s
ResultOf(s) ==
  IF Len(s) > 0 /\ (calc.op = "waitForApexSeries" => hasPoints(s)) THEN Some(s) ELSE Null

\* C15 as stated: the instance carrying "projection-chart" is read if there is
\* one, else the first registered instance; of these alternatives the first
\* that yields a non-empty result is the one returned.
C15_FirstNonEmptyAlternative ==
  (Located /\ Len(calc.in) > 0) =>
    LET all  == 1..Len(calc.in)
        byId == {k \in all :
                   \/ MatchesFirst(k) /\ \A j \in 1..(k - 1) : ~MatchesFirst(j)
                   \/ /\ \A j \in all : ~MatchesFirst(j)
                      /\ MatchesSecond(k) /\ \A j \in 1..(k - 1) : ~MatchesSecond(j)}
        good == {k \in byId \cup {1} : ~ResultOf(calc.in[k].series).null}
    IN IF good = {} THEN calc.out.null
       ELSE \E k \in good :
              /\ calc.out = ResultOf(calc.in[k].series)
              /\ (good \cap byId # {}) => k \in byId

\* C15 amended: the instance is chosen by identifier alone, the first that
\* carries "projection-chart" where the first find looks, else the first that
\* carries it where the second find looks, else the first registered one; the
\* result is read from the chosen instance only, and is null when its series
\* are empty, whatever the other instances hold.
C15_SelectByIdentifier ==
  Located =>
    IF Len(calc.in) = 0 THEN calc.out.null
    ELSE \E k \in 1..Len(calc.in) :
           /\ calc.out = ResultOf(calc.in[k].series)
           /\ \/ MatchesFirst(k) /\ \A j \in 1..(k - 1) : ~MatchesFirst(j)
              \/ /\ \A j \in 1..Len(calc.in) : ~MatchesFirst(j)
                 /\ MatchesSecond(k) /\ \A j \in 1..(k - 1) : ~MatchesSecond(j)
              \/ /\ \A j \in 1..Len(calc.in) : ~MatchesFirst(j) /\ ~MatchesSecond(j)
                 /\ k = 1

C15_Witness ==
  /\ Located /\ Len(calc.in) = 2
  /\ calc.in[1] = [id |-> "none", series |-> << [name |-> PriceName, data |-> << GoodPt >>] >>]
  /\ calc.in[2].id = "id" /\ calc.in[2].series = << [name |-> BullName, data |-> << GoodPt >>] >>
  /\ calc.out = Some(calc.in[2].series)

\* C16 (waitForApexSeries): a probe evaluation that throws, like a probe that
\* finds no chart library, counts as a probe without result: the exception
\* never leaves the loop, the loop waits the fixed delay and goes on, and a
\* poll that has met an exception still ends only with a valid result or
\* with the timeout once the whole deadline has elapsed.
C16_ExceptionIsNoResult ==
  /\ [][(~threw /\ threw') =>
          /\ pc' = "poll" /\ err' = "none" /\ series'.null
          /\ probes' = probes + 1 /\ elapsed' >= elapsed + PollDelay]_vars
  /\ [](threw => /\ pc = "poll" /\ err = "none"
                 /\ ENABLED (waitForApexSeries_probe \/ waitForApexSeries_timeout))
  /\ [](err # "EvaluationError")
  /\ [][(pc = "poll" /\ threw /\ pc' # "poll") =>
          \/ pc' = "normalize" /\ ValidResult(series') /\ err' = "none"
          \/ pc' = "closePage" /\ err' = "Timeout" /\ elapsed >= TimeoutMs]_vars

C16_Witness ==
  pc = "poll" /\ threw /\ probes >= 1 /\ PollContinue(elapsed)

\* C17 (Promise.all variant): whatever the order in which the two fetches
\* settle, a delivery is made only once both have fulfilled, its rows are
\* all the Rows of "1m" followed by all the Rows of "3m", and no delivery is
\* made when a fetch has failed.
C17_BatchOrder ==
  variant = "regex" =>
    /\ posts # << >> =>
         /\ Len(settled) = 2 /\ \A h \in Labels : fetchSt[h] = "fulfilled"
         /\ Len(posts) = 1
         /\ Delivered = rowsOf["1m"] \o rowsOf["3m"]
         /\ \A i, j \in 1..Len(Delivered) :
               i < j => ~(Delivered[i].timeframe = "3m" /\ Delivered[j].timeframe = "1m")
    /\ failed # {} => posts = << >>

C17_Witness ==
  /\ variant = "regex" /\ posts # << >> /\ settled = << "3m", "1m" >>
  /\ rowsOf["1m"] # << >> /\ rowsOf["3m"] # << >>
  /\ Delivered[1].timeframe = "1m"
  /\ Delivered[Len(Delivered)].timeframe = "3m"

\* C18 (browser variants): never more than one page, and never more than one
\* browser, is open; a page (a browser) is opened only when none is open, the
\* page or browser of a target is closed before main goes on to the next
\* target or to its catch, and "1m" is started only after "3m" has succeeded.
C18_OneAtATime ==
  /\ [](variant \in {"poll", "waitfn"} =>
          /\ open.page <= 1 /\ open.browser <= 1 /\ open.context <= 1
          /\ attempts["1m"] > 0 => (attempts["3m"] > 0 /\ TargetSucceeded("3m"))
          /\ (pc = "catch" /\ failed # {}) =>
                (open.page = 0 /\ (variant = "waitfn" => open = NoneOpen)))
  /\ [][(variant = "poll" \/ variant = "waitfn") =>
          (/\ open'.page > open.page => open.page = 0
           /\ open'.browser > open.browser => open.browser = 0
           /\ idx' # idx =>
                 (/\ Targets(variant)[idx] = "3m" /\ Targets(variant)[idx'] = "1m"
                  /\ variant = "poll" => open'.page = 0
                  /\ variant = "waitfn" => open' = NoneOpen))]_vars

C18_Witness ==
  /\ variant \in {"poll", "waitfn"} /\ idx = 2 /\ Cur = "1m"
  /\ open.page = 1 /\ open.browser = 1
  /\ rowsOf["3m"] # << >>

\* C19: without MAKE_WEBHOOK_URL the run fetches or opens no page, launches no
\* browser and issues no delivery request, and it ends with a non-zero code.
C19_MissingUrlExitsFirst ==
  ~urlSet =>
    /\ \A t \in Labels : attempts[t] = 0
    /\ open = NoneOpen
    /\ posts = << >>
    /\ pc = "exited" => exitCode # 0

====
